---- MODULE Spec2Model ----
(***************************************************************************)
(* The stale-record purger of the IoT proof-of-coverage verifier           *)
(* (poc_iot_verifier/src/purger.rs): the scheduler loop Purger::run, one   *)
(* pass Purger::handle_db_tick with its two bounded pools, and the         *)
(* per-record reconciliations handle_purged_beacon / handle_purged_witness.*)
(* Every await point of the code is one step of the model; the record      *)
(* store, the file sink, the shutdown trigger and the clock are the        *)
(* environment.                                                            *)
(***************************************************************************)
EXTENDS Integers, Sequences, FiniteSets, Bags, TLC

----------------------------------------------------------------------------
(* Program constants (purger.rs:19-42), in seconds.                        *)
DB_POLL_TIME == 60 * 35
PURGER_WORKERS == 40
BEACON_STALE_PERIOD == 60 * 90
WITNESS_STALE_PERIOD == BEACON_STALE_PERIOD + (15 * 60)
ENTROPY_STALE_PERIOD == BEACON_STALE_PERIOD + (15 * 60)

(* Bounds of the model.                                                    *)
NumBeacons == 2
NumWitnesses == 1
MaxTimeSteps == 3
MaxPasses == 2
MaxFaults == 1
MaxRestarts == 1
MaxStale == 42
MaxBase == 2
MaxU64 == 3              \* u64::MAX of the balance cache, scaled down

(* The clock advances in half poll intervals, from Start.                  *)
TimeStep == DB_POLL_TIME \div 2
Start == 4 * DB_POLL_TIME
Horizon == Start + MaxTimeSteps * TimeStep

Beacons == 1..NumBeacons
Witnesses == (NumBeacons + 1)..(NumBeacons + NumWitnesses)
Reports == Beacons \cup Witnesses
EntropyIds == {0}
NoReport == NumBeacons + NumWitnesses + 1

VARIABLES
    now,                 \* wall clock, seconds
    deadline,            \* next deadline of db_timer
    base_stale_period,   \* Purger.base_stale_period
    db,                  \* RecordStore: db[r] = TRUE iff the row of r is present (pending)
    received_timestamp,  \* received_timestamp of each report
    report_data,         \* "valid" or "corrupt": whether report_data decodes
    entropy,             \* entropy rows present: id -> timestamp
    sink,                \* bag of envelopes accepted by the file sinks
    triggered,           \* the shutdown trigger has fired
    runPc,               \* position of Purger::run
    passPc,              \* position of Purger::handle_db_tick
    task,                \* state of the reconciliation of each report in the current pool
    log,                 \* steps of the latest reconciliation of each report, in order
    passCount,           \* number of handle_db_tick invocations so far
    active,              \* handle_db_tick invocations entered and not yet returned
    overran,             \* the latest pass returned after the deadline of db_timer
    purged,              \* reports whose row a delete of the Purger removed
    verifying,           \* reports the verifier has picked up
    verified,            \* reports verified (and removed) by the verifier
    restarts,            \* process restarts so far
    exitArm,             \* how run left its loop: "none", "check" (:102) or "select" (:106)
    faults,              \* store and sink calls that have failed so far
    shutdownCaught,      \* the reconciliations of the current pool that were in flight
                         \* when the shutdown trigger fired
    firedPass,           \* the pass (its number) during which the trigger fired; 0: none
    failures,            \* the store and sink calls that have failed: pass, call, report
    bulk,                \* a pool over a large stale set: the number of its reports
                         \* waiting, submitting, deleting and finished
    balances,            \* Balances.balances: payer -> Balance, for the cached payers
    result,              \* the latest call of debit_if_sufficient and what it returned
    history              \* per payer: the sufficiency of its latest call that returned
                         \* a BalanceSufficiency, and the latest signal it carried

vars == <<now, deadline, base_stale_period, db, received_timestamp, report_data,
          entropy, sink, triggered, runPc, passPc, task, log, passCount, active,
          overran, purged, verifying, verified, restarts, exitArm, faults,
          shutdownCaught, firedPass, failures, bulk, balances, result,
          history>>

(* The variables of the Purger.                                            *)
purgerVars == <<now, deadline, base_stale_period, db, received_timestamp,
                report_data, entropy, sink, triggered, runPc, passPc, task, log,
                passCount, active, overran, purged, verifying, verified,
                restarts, exitArm, faults, shutdownCaught, firedPass, failures>>

storeVars == <<db, received_timestamp, report_data, entropy>>
histVars == <<passCount, active, overran>>
verifierVars == <<verifying, verified>>
balanceVars == <<balances, result, history>>

----------------------------------------------------------------------------
(* Helpers.                                                                *)

Kind(r) == IF r \in Beacons THEN "beacon" ELSE "witness"

KindStalePeriod(k) ==
    IF k = "beacon" THEN BEACON_STALE_PERIOD ELSE WITNESS_STALE_PERIOD

(* purger.rs:131 and :159: the stale period handed to the query.           *)
StalePeriodNoBase(k, base) == KindStalePeriod(k)

StalePeriod(k, base) == base + KindStalePeriod(k)

(* purger.rs:188: the stale period handed to Entropy::purge.               *)
EntropyStalePeriodNoBase(base) == ENTROPY_STALE_PERIOD

EntropyStalePeriod(base) == base + ENTROPY_STALE_PERIOD

(* Report::get_stale_pending_beacons / _witnesses: the pending rows of a   *)
(* kind whose age has reached the stale period.                            *)
StaleSet(k, period) ==
    {r \in Reports : /\ Kind(r) = k
                     /\ db[r]
                     /\ now - received_timestamp[r] >= period}

(* Entropy::purge: the rows a purge with this period removes.              *)
StaleEntropy(period) ==
    {e \in DOMAIN entropy : now - entropy[e] >= period}

(* The envelope handle_purged_beacon (:203-208) and handle_purged_witness  *)
(* (:230-236) build from a decoded report.                                 *)
InvalidBeaconReportNow(r) ==
    [file |-> "invalid_beacon",
     received_timestamp |-> now,
     reason |-> "Stale",
     report |-> r]

InvalidBeaconReport(r) ==
    [file |-> "invalid_beacon",
     received_timestamp |-> received_timestamp[r],
     reason |-> "Stale",
     report |-> r]

InvalidWitnessReport(r) ==
    [file |-> "invalid_witness_report",
     received_timestamp |-> received_timestamp[r],
     reason |-> "Stale",
     report |-> r,
     participant_side |-> "Witness"]

EnvelopeBeaconOnly(r) == InvalidBeaconReport(r)

Envelope(r) ==
    IF Kind(r) = "beacon" THEN InvalidBeaconReport(r) ELSE InvalidWitnessReport(r)

(* Number of stale envelopes the sink has accepted for report r.           *)
Accepted(r) == CopiesIn(Envelope(r), sink)

InFlight == {r \in Reports : task[r] \in {"submit", "delete"}}

(* :141 / :169, for_each_concurrent(PURGER_WORKERS, ..): the pool takes    *)
(* the next report of its stream only while fewer than PURGER_WORKERS of   *)
(* its futures are in flight.                                              *)
HasCapacityUnbounded(n) == TRUE

HasCapacity(n) == n < PURGER_WORKERS

(* The outcomes a store or sink call can have: it succeeds, or it fails    *)
(* while the model's budget of failures lasts.                             *)
Outcomes == IF faults < MaxFaults THEN BOOLEAN ELSE {TRUE}

Fault(ok) == IF ok THEN faults ELSE faults + 1

(* The record of a call that failed: the pass it was made in, the call and  *)
(* the report it was made for (NoReport for a query or the entropy purge). *)
Failure(call, r) == [pass |-> passCount, call |-> call, report |-> r]

Failed(ok, call, r) == IF ok THEN failures ELSE failures \cup {Failure(call, r)}

NoTasks == [r \in Reports |-> "none"]
NoLogs == [r \in Reports |-> <<>>]
NoBulk == [phase |-> "none", queued |-> 0, submit |-> 0, delete |-> 0]

(* iot_packet_verifier/src/balances.rs.                                    *)
Payers == {"payer1", "payer2"}
U64 == 0..MaxU64

(* u64 `+` and `+=` (:97, :104, :105). A sum above u64::MAX wraps in a     *)
(* build without overflow checks and panics in a build with them.          *)
Overflows(a, b) == a + b > MaxU64

U64Add(a, b) == (a + b) % (MaxU64 + 1)

(* :195-199, struct Balance, and :201-208, Balance::new.                   *)
Balance == [balance : U64, burned : U64, enabled : BOOLEAN]

BalanceNew(balance) == [balance |-> balance, burned |-> 0, enabled |-> TRUE]

(* :97, `balance.balance < amount + balance.burned`: the cached balance    *)
(* does not cover the debit, so it is fetched again.                       *)
NeedsRefresh(b, amount) == b.balance < U64Add(amount, b.burned)

(* :104, `balance.balance >= amount + balance.burned`.                     *)
IsSufficient(b, amount) == b.balance >= U64Add(amount, b.burned)

(* :130-134, BalanceSufficiency::sufficient: the flag becomes true and     *)
(* enable is the negation of what it was.                                  *)
SufficientEnableAlways(enabled) == TRUE

SufficientEnable(enabled) == ~enabled

(* :136-140, BalanceSufficiency::insufficient: the flag becomes false and  *)
(* disable is what it was.                                                 *)
InsufficientDisable(enabled) == enabled

(* :105-108: the entry after the decision, and the BalanceSufficiency.     *)
Debited(b, amount) ==
    IF IsSufficient(b, amount)
    THEN [b EXCEPT !.burned = U64Add(@, amount), !.enabled = TRUE]
    ELSE [b EXCEPT !.enabled = FALSE]

Sufficiency(b, amount) ==
    IF IsSufficient(b, amount)
    THEN [kind |-> "Sufficient", flag |-> SufficientEnable(b.enabled)]
    ELSE [kind |-> "Insufficient", flag |-> InsufficientDisable(b.enabled)]

(* :152-176, configure_org: the request a BalanceSufficiency leads to.     *)
Signal(suff) ==
    CASE suff.kind = "Sufficient" /\ suff.flag -> "enable"
      [] suff.kind = "Insufficient" /\ suff.flag -> "disable"
      [] OTHER -> "none"

NoResult == [payer |-> "none", amount |-> 0, kind |-> "none", flag |-> FALSE]
NoHistory == [p \in Payers |-> [sufficiency |-> "none", signal |-> "none"]]

(* No payer is cached and debit_if_sufficient is not called.               *)
NoBalances ==
    /\ balances = [p \in {} |-> BalanceNew(0)]
    /\ result = NoResult
    /\ history = NoHistory

----------------------------------------------------------------------------
(* The interval timer db_timer (purger.rs:65-66).                          *)

(* MissedTickBehavior::Skip: the deadline after a tick that is delivered   *)
(* late is the next multiple of the period, counted from the missed        *)
(* deadline, that lies after the current time.                             *)
NextTimeoutBurst(timeout, t, period) ==
    timeout + period

NextTimeout(timeout, t, period) ==
    t + period - ((t - timeout) % period)

(* Interval::tick resolving at time t with the deadline timeout: the new   *)
(* deadline.                                                               *)
TickDeadline(timeout, t, period) ==
    IF t > timeout THEN NextTimeout(timeout, t, period) ELSE timeout + period

TimerReady == now >= deadline

----------------------------------------------------------------------------
(* Control flow of one reconciliation (purger.rs:192-247).                 *)

(* :199 / :227, decode(..)?.try_into()?: an undecodable payload ends the   *)
(* reconciliation with Err before anything is submitted.                   *)
AfterDecodeLenient(data) == "submit"

AfterDecode(data) == IF data = "valid" THEN "submit" ELSE "err"

(* :215 / :243, file_sink_write!(..).await?: only an accepted envelope     *)
(* lets the reconciliation go on to the delete.                            *)
AfterSubmitUnchecked(ok) == "delete"

AfterSubmit(ok) == IF ok THEN "delete" ELSE "err"

(* :217 / :246: the result of delete_report is the result of the handler.  *)
AfterDeleteRetry(ok) == IF ok THEN "ok" ELSE "delete"

AfterDelete(ok) == IF ok THEN "ok" ELSE "err"

(* :152-157 / :180-185: when the select completes on its shutdown branch   *)
(* the pool future is dropped, and every reconciliation in it with it:     *)
(* those not yet launched never start, those suspended at an await stop    *)
(* there.                                                                  *)
OnPoolDropDetached(t) == t

OnPoolDrop(t) ==
    CASE t = "queued" -> "unstarted"
      [] t \in {"submit", "delete"} -> "dropped"
      [] OTHER -> t

(* :156 / :184, `_ = shutdown.clone() => ()`: the shutdown arm of a pool's *)
(* select has an empty body, so handle_db_tick goes on with the statement  *)
(* after the select.                                                       *)
OnShutdownArmSkip(next) == "entropy"

OnShutdownArm(next) == next

(* :108: run awaits handle_db_tick inside the select arm, so the loop is   *)
(* suspended for as long as the pass runs.                                 *)
RunPcSpawned == "check"

RunPcInPass == "pass"

(* :110-113: an Err of handle_db_tick is returned by run: the loop is left *)
(* for good.                                                               *)
RunPcOnErrLogged == "check"

RunPcOnErr == "done_err"

(* :136 / :164, `.await?`: the Err of a stale-set query leaves             *)
(* handle_db_tick at once; no later statement of the pass is run.          *)
PassPcOnErrGoOn == "entropy"

PassPcOnErr == "idle"

----------------------------------------------------------------------------
(* Initial states.                                                         *)

(* The state when run enters its loop, for the setting base of            *)
(* base_stale_period. The store holds one pending row per report. A report *)
(* was received exactly one stale period before Start, so it is stale from *)
(* the start; at most one report is special: received one second later     *)
(* (fresh at Start), or with a payload that does not decode. The entropy   *)
(* row is entropyAge seconds old.                                          *)
InitPurger(base, entropyAge) ==
    /\ now = Start
    /\ deadline = Start
    /\ base_stale_period = base
    /\ db = [r \in Reports |-> TRUE]
    /\ \E special \in Reports \cup {NoReport}, how \in {"fresh", "corrupt"} :
         /\ received_timestamp =
              [r \in Reports |-> Start - (base + KindStalePeriod(Kind(r)))
                                  + (IF r = special /\ how = "fresh" THEN 1 ELSE 0)]
         /\ report_data =
              [r \in Reports |-> IF r = special /\ how = "corrupt"
                                 THEN "corrupt" ELSE "valid"]
    /\ entropy = [e \in EntropyIds |-> Start - entropyAge]
    /\ sink = EmptyBag
    /\ triggered = FALSE
    /\ runPc = "check"
    /\ passPc = "idle"
    /\ task = NoTasks
    /\ log = NoLogs
    /\ passCount = 0
    /\ active = 0
    /\ overran = FALSE
    /\ purged = {}
    /\ verifying = {}
    /\ verified = {}
    /\ restarts = 0
    /\ exitArm = "none"
    /\ faults = 0
    /\ shutdownCaught = {}
    /\ firedPass = 0
    /\ failures = {}

(* base_stale_period is 0 and the entropy row turns stale one time step    *)
(* after Start.                                                            *)
Init ==
    /\ InitPurger(0, ENTROPY_STALE_PERIOD - TimeStep)
    /\ bulk = NoBulk
    /\ NoBalances

----------------------------------------------------------------------------
(* Environment.                                                            *)

(* Time passes, at any moment.                                             *)
AdvanceTime ==
    /\ now < Horizon
    /\ now' = now + TimeStep
    /\ UNCHANGED <<deadline, base_stale_period, storeVars, sink, triggered,
                   runPc, passPc, task, log, histVars, purged, verifierVars,
                   restarts, exitArm, faults, shutdownCaught, firedPass,
                   failures, bulk, balanceVars>>

(* The shutdown trigger fires, at any moment of the run.                   *)
ShutdownFire ==
    /\ ~triggered
    /\ runPc \notin {"done_ok", "done_err"}
    /\ triggered' = TRUE
    /\ shutdownCaught' = InFlight
    /\ firedPass' = IF runPc = "pass" THEN passCount ELSE 0
    /\ UNCHANGED <<now, deadline, base_stale_period, storeVars, sink, runPc,
                   passPc, task, log, histVars, purged, verifierVars,
                   restarts, exitArm, faults, failures, bulk, balanceVars>>

----------------------------------------------------------------------------
(* Purger::run (purger.rs:101-119).                                        *)

(* :102-104 *)
RunCheck ==
    /\ runPc = "check"
    /\ runPc' = IF triggered THEN "done_ok" ELSE "select"
    /\ exitArm' = IF triggered THEN "check" ELSE exitArm
    /\ UNCHANGED <<now, deadline, base_stale_period, storeVars, sink,
                   triggered, passPc, task, log, histVars, purged,
                   verifierVars, restarts, faults, shutdownCaught, firedPass,
                   failures, bulk, balanceVars>>

RunShutdownMissing ==
    /\ FALSE
    /\ UNCHANGED vars

(* :106, the shutdown arm of the select *)
RunShutdown ==
    /\ runPc = "select"
    /\ triggered
    /\ runPc' = "done_ok"
    /\ exitArm' = "select"
    /\ UNCHANGED <<now, deadline, base_stale_period, storeVars, sink,
                   triggered, passPc, task, log, histVars, purged,
                   verifierVars, restarts, faults, shutdownCaught, firedPass,
                   failures, bulk, balanceVars>>

(* :107-108, the timer arm of the select: the tick resolves and            *)
(* handle_db_tick is entered                                               *)
RunTick ==
    /\ runPc = "select"
    /\ TimerReady
    /\ passCount < MaxPasses
    /\ deadline' = TickDeadline(deadline, now, DB_POLL_TIME)
    /\ runPc' = RunPcInPass
    /\ passPc' = "beacon_query"
    /\ passCount' = passCount + 1
    /\ active' = active + 1
    /\ UNCHANGED <<now, base_stale_period, storeVars, sink, triggered, task,
                   log, overran, purged, verifierVars, restarts, exitArm,
                   faults, shutdownCaught, firedPass, failures, bulk,
                   balanceVars>>

----------------------------------------------------------------------------
(* Purger::handle_db_tick (purger.rs:121-190).                             *)

(* A stale-set query ends with Err: `?` returns it from handle_db_tick and *)
(* run returns it (:110-113).                                              *)
QueryFailed ==
    /\ passPc' = PassPcOnErr
    /\ runPc' = RunPcOnErr
    /\ active' = active - 1
    /\ overran' = (now > deadline)
    /\ task' = NoTasks
    /\ log' = NoLogs
    /\ shutdownCaught' = {}
    /\ UNCHANGED firedPass
    /\ faults < MaxFaults
    /\ faults' = faults + 1
    /\ failures' = Failed(FALSE, passPc, NoReport)
    /\ UNCHANGED <<now, deadline, base_stale_period, storeVars, sink,
                   triggered, passCount, purged, verifierVars, restarts,
                   exitArm, bulk, balanceVars>>

(* :140-141 / :168-169, stream::iter(stale_beacons): the stream of a pool  *)
(* holds the rows its query has just returned, and no other.               *)
StreamItemsAll(stale, r) == "queued"

StreamItemsPending(stale, r) == IF db[r] THEN "queued" ELSE "none"

StreamItems(stale, r) == IF r \in stale THEN "queued" ELSE "none"

(* The stale set becomes the items of the pool's stream; the previous      *)
(* pool, if any, is gone.                                                  *)
QueryDone(k, next) ==
    LET stale == StaleSet(k, StalePeriod(k, base_stale_period)) IN
    /\ passPc' = next
    /\ task' = [r \in Reports |-> StreamItems(stale, r)]
    /\ log' = NoLogs
    /\ shutdownCaught' = {}
    /\ UNCHANGED firedPass
    /\ UNCHANGED <<now, deadline, base_stale_period, storeVars, sink,
                   triggered, runPc, histVars, purged, verifierVars, restarts,
                   exitArm, faults, failures, bulk, balanceVars>>

(* :131-139 *)
BeaconQuery ==
    /\ passPc = "beacon_query"
    /\ \/ QueryDone("beacon", "beacon_pool")
       \/ QueryFailed

(* :159-167 *)
WitnessQuery ==
    /\ passPc = "witness_query"
    /\ \/ QueryDone("witness", "witness_pool")
       \/ QueryFailed

InPool == passPc \in {"beacon_pool", "witness_pool"}

AfterPool == IF passPc = "beacon_pool" THEN "witness_query" ELSE "entropy"

(* for_each_concurrent(PURGER_WORKERS, ..) takes the next report of the    *)
(* stream while fewer than PURGER_WORKERS reconciliations are in flight    *)
(* (:141 / :169) and polls its handler, which decodes the payload          *)
(* (:197-199 / :225-227).                                                  *)
Launch(r) ==
    /\ InPool
    /\ task[r] = "queued"
    /\ HasCapacity(Cardinality(InFlight))
    /\ task' = [task EXCEPT ![r] = AfterDecode(report_data[r])]
    /\ log' = [log EXCEPT ![r] =
                 IF report_data[r] = "valid" THEN <<>> ELSE <<"decode_err">>]
    /\ UNCHANGED <<now, deadline, base_stale_period, storeVars, sink,
                   triggered, runPc, passPc, histVars, purged, verifierVars,
                   restarts, exitArm, faults, shutdownCaught, firedPass,
                   failures, bulk, balanceVars>>

(* :210-215 / :238-243: the sink accepts the envelope, or the write fails. *)
Submit(r) ==
    /\ InPool
    /\ task[r] = "submit"
    /\ \E ok \in Outcomes :
         /\ faults' = Fault(ok)
         /\ failures' = Failed(ok, "submit", r)
         /\ sink' = IF ok THEN sink (+) SetToBag({Envelope(r)}) ELSE sink
         /\ log' = [log EXCEPT ![r] =
                      Append(@, IF ok THEN "submit_ok" ELSE "submit_err")]
         /\ task' = [task EXCEPT ![r] = AfterSubmit(ok)]
    /\ UNCHANGED <<now, deadline, base_stale_period, storeVars, triggered,
                   runPc, passPc, histVars, purged, verifierVars, restarts,
                   exitArm, shutdownCaught, firedPass, bulk, balanceVars>>

(* :217 / :246: Report::delete_report removes the row, or fails.           *)
Delete(r) ==
    /\ InPool
    /\ task[r] = "delete"
    /\ \E ok \in Outcomes :
         /\ faults' = Fault(ok)
         /\ failures' = Failed(ok, "delete", r)
         /\ db' = IF ok THEN [db EXCEPT ![r] = FALSE] ELSE db
         /\ purged' = IF ok /\ db[r] THEN purged \cup {r} ELSE purged
         /\ log' = [log EXCEPT ![r] =
                      Append(@, IF ok THEN "delete_ok" ELSE "delete_err")]
         /\ task' = [task EXCEPT ![r] = AfterDelete(ok)]
    /\ UNCHANGED <<now, deadline, base_stale_period, received_timestamp,
                   report_data, entropy, sink, triggered, runPc, passPc,
                   histVars, verifierVars, restarts, exitArm, shutdownCaught,
                   firedPass, bulk, balanceVars>>

(* :144-149 / :172-177: the closure of the pool logs the Err of a handler   *)
(* and returns (), so the pool future resolves only when every report of   *)
(* the stream has been handled, whatever the handlers returned.            *)
PoolDoneOnErr ==
    \/ \A r \in Reports : task[r] \notin {"queued", "submit", "delete"}
    \/ \E r \in Reports : task[r] = "err"

PoolDone ==
    \A r \in Reports : task[r] \notin {"queued", "submit", "delete"}

(* :153-155 / :181-183: the pool arm of the select.                        *)
PoolComplete ==
    /\ InPool
    /\ PoolDone
    /\ passPc' = AfterPool
    /\ UNCHANGED <<now, deadline, base_stale_period, storeVars, sink,
                   triggered, runPc, task, log, histVars, purged,
                   verifierVars, restarts, exitArm, faults, shutdownCaught,
                   firedPass, failures, bulk, balanceVars>>

(* :156 / :184: the shutdown arm of the select.                            *)
PoolShutdown ==
    /\ InPool
    /\ triggered
    /\ passPc' = OnShutdownArm(AfterPool)
    /\ task' = [r \in Reports |-> OnPoolDrop(task[r])]
    /\ log' = [r \in Reports |->
                 IF OnPoolDrop(task[r]) = "dropped" THEN Append(log[r], "dropped")
                 ELSE log[r]]
    /\ UNCHANGED <<now, deadline, base_stale_period, storeVars, sink,
                   triggered, runPc, histVars, purged, verifierVars, restarts,
                   exitArm, faults, shutdownCaught, firedPass, failures,
                   bulk, balanceVars>>

(* :188-189, `let _ = Entropy::purge(..).await; Ok(())`: whatever the       *)
(* purge returned, handle_db_tick returns Ok and run goes round its loop.  *)
AfterEntropyPurgeChecked(ok) == IF ok THEN "check" ELSE "done_err"

AfterEntropyPurge(ok) == "check"

(* :187-189: the bulk purge of stale entropy; its result is discarded and  *)
(* handle_db_tick returns Ok to the loop of run.                           *)
EntropyPurge ==
    /\ passPc = "entropy"
    /\ \E ok \in Outcomes :
         /\ faults' = Fault(ok)
         /\ failures' = Failed(ok, "entropy", NoReport)
         /\ entropy' =
              IF ok
              THEN [e \in DOMAIN entropy \
                      StaleEntropy(EntropyStalePeriod(base_stale_period)) |-> entropy[e]]
              ELSE entropy
         /\ runPc' = AfterEntropyPurge(ok)
    /\ passPc' = "idle"
    /\ active' = active - 1
    /\ overran' = (now > deadline)
    /\ task' = NoTasks
    /\ log' = NoLogs
    /\ shutdownCaught' = {}
    /\ UNCHANGED firedPass
    /\ UNCHANGED <<now, deadline, base_stale_period, db, received_timestamp,
                   report_data, sink, triggered, passCount, purged,
                   verifierVars, restarts, exitArm, bulk, balanceVars>>

----------------------------------------------------------------------------
Next ==
    \/ AdvanceTime
    \/ ShutdownFire
    \/ RunCheck
    \/ RunShutdown
    \/ RunTick
    \/ BeaconQuery
    \/ WitnessQuery
    \/ \E r \in Reports : Launch(r)
    \/ \E r \in Reports : Submit(r)
    \/ \E r \in Reports : Delete(r)
    \/ PoolComplete
    \/ PoolShutdown
    \/ EntropyPurge

Spec == Init /\ [][Next]_vars

(* The steps of the Purger itself. The runtime goes on polling the task    *)
(* that runs Purger::run, and every store and sink call returns in the     *)
(* end: a step of the Purger that stays possible is taken. Nothing is      *)
(* assumed of the clock or of the shutdown trigger.                        *)
PurgerStep ==
    \/ RunCheck
    \/ RunShutdown
    \/ RunTick
    \/ BeaconQuery
    \/ WitnessQuery
    \/ \E r \in Reports : Launch(r)
    \/ \E r \in Reports : Submit(r)
    \/ \E r \in Reports : Delete(r)
    \/ PoolComplete
    \/ PoolShutdown
    \/ EntropyPurge

(* The run that starts with every report stale and decodable.             *)
InitFair ==
    /\ Init
    /\ \A r \in Reports :
         /\ report_data[r] = "valid"
         /\ now - received_timestamp[r] >= StalePeriod(Kind(r), base_stale_period)

SpecFair == InitFair /\ [][Next]_vars /\ WF_vars(PurgerStep)

----------------------------------------------------------------------------
(* The process stops at an arbitrary point (a crash, a kill) and is        *)
(* started again: run begins anew with a fresh timer, whose first tick is  *)
(* immediate, and an untriggered shutdown listener (purger.rs:62-100).     *)
(* The store and the envelopes already accepted stay.                      *)
Restart ==
    /\ restarts < MaxRestarts
    /\ restarts' = restarts + 1
    /\ runPc' = "check"
    /\ passPc' = "idle"
    /\ task' = NoTasks
    /\ log' = NoLogs
    /\ triggered' = FALSE
    /\ deadline' = now
    /\ active' = 0
    /\ overran' = FALSE
    /\ exitArm' = "none"
    /\ shutdownCaught' = {}
    /\ firedPass' = 0
    /\ UNCHANGED <<now, base_stale_period, storeVars, sink, passCount, purged,
                   verifierVars, faults, failures, bulk, balanceVars>>

NextCrash == Next \/ Restart

SpecCrash == Init /\ [][NextCrash]_vars

----------------------------------------------------------------------------
(* The verifier, a separate process on the same store. It picks up a       *)
(* pending report that is not yet stale and, some time later, disposes of  *)
(* it: the report is verified and its row removed. Nothing locks the row   *)
(* in between.                                                             *)
VerifierSelect(r) ==
    /\ db[r]
    /\ r \notin verifying \cup verified
    /\ now - received_timestamp[r] < StalePeriod(Kind(r), base_stale_period)
    /\ verifying' = verifying \cup {r}
    /\ UNCHANGED <<now, deadline, base_stale_period, storeVars, sink,
                   triggered, runPc, passPc, task, log, histVars, purged,
                   verified, restarts, exitArm, faults, shutdownCaught,
                   firedPass, failures, bulk, balanceVars>>

VerifierFinish(r) ==
    /\ r \in verifying
    /\ verifying' = verifying \ {r}
    /\ verified' = verified \cup {r}
    /\ db' = [db EXCEPT ![r] = FALSE]
    /\ UNCHANGED <<now, deadline, base_stale_period, received_timestamp,
                   report_data, entropy, sink, triggered, runPc, passPc, task,
                   log, histVars, purged, restarts, exitArm, faults,
                   shutdownCaught, firedPass, failures, bulk, balanceVars>>

NextVerifier ==
    \/ Next
    \/ \E r \in Reports : VerifierSelect(r)
    \/ \E r \in Reports : VerifierFinish(r)

SpecVerifier == Init /\ [][NextVerifier]_vars

----------------------------------------------------------------------------
(* The first pass, at the instant Start, for several settings of           *)
(* base_stale_period and with the entropy row one second short of the      *)
(* beacon threshold, one second short of the entropy threshold, or at it.  *)
BasePeriods == {i * TimeStep : i \in 0..MaxBase}

EntropyAges(base) ==
    {base + BEACON_STALE_PERIOD - 1,
     base + ENTROPY_STALE_PERIOD - 1,
     base + ENTROPY_STALE_PERIOD}

InitBase ==
    /\ \E base \in BasePeriods :
         \E entropyAge \in EntropyAges(base) : InitPurger(base, entropyAge)
    /\ bulk = NoBulk
    /\ NoBalances

NextBase ==
    \/ RunCheck
    \/ RunTick
    \/ BeaconQuery
    \/ WitnessQuery
    \/ \E r \in Reports : Launch(r)
    \/ \E r \in Reports : Submit(r)
    \/ \E r \in Reports : Delete(r)
    \/ PoolComplete
    \/ EntropyPurge

SpecBase == InitBase /\ [][NextBase]_vars

----------------------------------------------------------------------------
(* One pass over stale sets larger than PURGER_WORKERS. The reports of a   *)
(* pool are told apart only by how far their reconciliation has got, so    *)
(* the pool is the number of its reports waiting in the stream (queued),   *)
(* in file_sink_write! (submit) and in delete_report (delete).             *)

BulkInFlight == bulk.submit + bulk.delete

BulkAfter(phase) ==
    CASE phase = "beacon_query" -> "beacon_pool"
      [] phase = "beacon_pool" -> "witness_query"
      [] phase = "witness_query" -> "witness_pool"
      [] phase = "witness_pool" -> "entropy"

InitBulk ==
    /\ InitPurger(0, ENTROPY_STALE_PERIOD - TimeStep)
    /\ bulk = [phase |-> "beacon_query", queued |-> 0, submit |-> 0, delete |-> 0]
    /\ NoBalances

(* :135-141 / :163-169: the query returns n stale rows, the pool's stream. *)
BulkQuery ==
    /\ bulk.phase \in {"beacon_query", "witness_query"}
    /\ \E n \in 0..MaxStale :
         bulk' = [bulk EXCEPT !.phase = BulkAfter(@), !.queued = n]
    /\ UNCHANGED <<purgerVars, balanceVars>>

(* :141 / :169 *)
BulkLaunch ==
    /\ bulk.queued > 0
    /\ HasCapacity(BulkInFlight)
    /\ bulk' = [bulk EXCEPT !.queued = @ - 1, !.submit = @ + 1]
    /\ UNCHANGED <<purgerVars, balanceVars>>

(* :210-215 / :238-243 *)
BulkSubmit ==
    /\ bulk.submit > 0
    /\ \E ok \in BOOLEAN :
         bulk' = [bulk EXCEPT !.submit = @ - 1,
                              !.delete = IF AfterSubmit(ok) = "delete" THEN @ + 1 ELSE @]
    /\ UNCHANGED <<purgerVars, balanceVars>>

(* :217 / :246 *)
BulkDelete ==
    /\ bulk.delete > 0
    /\ bulk' = [bulk EXCEPT !.delete = @ - 1]
    /\ UNCHANGED <<purgerVars, balanceVars>>

(* :153 / :181: the pool arm of the select, when the stream is exhausted   *)
(* and no future is left.                                                  *)
BulkComplete ==
    /\ bulk.phase \in {"beacon_pool", "witness_pool"}
    /\ bulk.queued = 0 /\ BulkInFlight = 0
    /\ bulk' = [bulk EXCEPT !.phase = BulkAfter(@)]
    /\ UNCHANGED <<purgerVars, balanceVars>>

NextBulk ==
    \/ BulkQuery
    \/ BulkLaunch
    \/ BulkSubmit
    \/ BulkDelete
    \/ BulkComplete

SpecBulk == InitBulk /\ [][NextBulk]_vars

----------------------------------------------------------------------------
(* Balances (iot_packet_verifier/src/balances.rs): the cache of payer      *)
(* balances and its debit_if_sufficient. The map is behind a tokio Mutex   *)
(* that a call holds from its first line to its return (:87), the await of *)
(* payer_balance included, so calls do not interleave. payer_balance reads *)
(* the escrow account of the payer on chain (:181-193): it returns any     *)
(* amount, or an error.                                                    *)

(* :42-73, Balances::new: an entry for every payer with a pending burn,    *)
(* with the amount of the burn, the balance found on chain and the flag    *)
(* set. The Purger is left at the start of its run.                        *)
InitBalances ==
    /\ InitPurger(0, ENTROPY_STALE_PERIOD - TimeStep)
    /\ \A r \in Reports :
         /\ report_data[r] = "valid"
         /\ now - received_timestamp[r] >= StalePeriod(Kind(r), base_stale_period)
    /\ bulk = NoBulk
    /\ \E cached \in SUBSET Payers :
         balances \in [cached -> {b \in Balance : b.enabled}]
    /\ result = NoResult
    /\ history = NoHistory

(* :89 and :97: the call asks the chain for the balance when the payer is  *)
(* not cached, or when the cached balance does not cover the debit.        *)
CallsPayerBalance(payer, amount) ==
    IF payer \notin DOMAIN balances THEN TRUE
    ELSE NeedsRefresh(balances[payer], amount)

(* :89-102: the entry of the payer once payer_balance has returned         *)
(* fetched, where it was called.                                           *)
Entry(payer, amount, fetched) ==
    IF payer \notin DOMAIN balances THEN BalanceNew(fetched)
    ELSE IF NeedsRefresh(balances[payer], amount)
         THEN [balances[payer] EXCEPT !.balance = fetched]
         ELSE balances[payer]

(* :91, balances.insert, and the writes through get_mut (:92-108).         *)
Insert(payer, b) ==
    [q \in DOMAIN balances \cup {payer} |-> IF q = payer THEN b ELSE balances[q]]

(* :81-112, a call that returns Ok(BalanceSufficiency).                    *)
DebitReturns(payer, amount) ==
    /\ \E fetched \in IF CallsPayerBalance(payer, amount) THEN U64 ELSE {0} :
         LET b == Entry(payer, amount, fetched)
             suff == Sufficiency(b, amount)
         IN  /\ balances' = Insert(payer, Debited(b, amount))
             /\ result' = [payer |-> payer, amount |-> amount,
                           kind |-> suff.kind, flag |-> suff.flag]
             /\ history' =
                  [history EXCEPT ![payer] =
                     [sufficiency |-> suff.kind,
                      signal |-> IF Signal(suff) = "none" THEN @.signal
                                 ELSE Signal(suff)]]
    /\ UNCHANGED <<purgerVars, bulk>>

(* :90 / :98, `payer_balance(..).await?`: the error of the RPC is returned *)
(* before anything is inserted or assigned.                                *)
DebitRpcError(payer, amount) ==
    /\ CallsPayerBalance(payer, amount)
    /\ result' = [payer |-> payer, amount |-> amount, kind |-> "RpcClientError",
                  flag |-> FALSE]
    /\ UNCHANGED <<balances, history>>
    /\ UNCHANGED <<purgerVars, bulk>>

(* :97, a build with overflow checks: `amount + balance.burned` above      *)
(* u64::MAX panics, at the first line that computes the sum (for a payer   *)
(* just inserted burned is 0 and the sum is amount).                       *)
DebitPanics(payer, amount) ==
    /\ payer \in DOMAIN balances
    /\ Overflows(amount, balances[payer].burned)
    /\ result' = [payer |-> payer, amount |-> amount, kind |-> "panic",
                  flag |-> FALSE]
    /\ UNCHANGED <<balances, history>>
    /\ UNCHANGED <<purgerVars, bulk>>

NextBalances ==
    \/ \E payer \in Payers, amount \in U64 : DebitReturns(payer, amount)
    \/ \E payer \in Payers, amount \in U64 : DebitRpcError(payer, amount)
    \/ \E payer \in Payers, amount \in U64 : DebitPanics(payer, amount)

SpecBalances == InitBalances /\ [][NextBalances]_vars

----------------------------------------------------------------------------
(* Properties.                                                             *)

IsDelete(ev) == ev \in {"delete_ok", "delete_err"}

Has(sq, ev) == \E i \in 1..Len(sq) : sq[i] = ev

HasDelete(sq) == \E i \in 1..Len(sq) : IsDelete(sq[i])

OnGrid(t) == (t - Start) % DB_POLL_TIME = 0

(* The age of the row of report r, and the threshold of its kind.          *)
Age(r) == now - received_timestamp[r]

Threshold(r) ==
    base_stale_period
      + (IF r \in Beacons THEN BEACON_STALE_PERIOD ELSE WITNESS_STALE_PERIOD)

(* The pool of the kind of r, and the positions of a pass after it.         *)
PoolOf(r) == Kind(r) \o "_pool"

AfterPoolOf(r) ==
    IF Kind(r) = "beacon" THEN {"witness_query", "witness_pool", "entropy", "idle"}
    ELSE {"entropy", "idle"}

(* Nothing has gone wrong so far: no call has failed, no shutdown was      *)
(* requested and every payload decodes.                                    *)
(* The burned total the cache holds for a payer; none for a payer that is  *)
(* not cached.                                                             *)
CachedBurned(p) == IF p \in DOMAIN balances THEN balances[p].burned ELSE 0

(* The calls one reconciliation can have made, in order.                   *)
OneReconciliation ==
    { <<>>, <<"decode_err">>, <<"dropped">>,
      <<"submit_err">>, <<"submit_ok">>, <<"submit_ok", "dropped">>,
      <<"submit_ok", "delete_ok">>, <<"submit_ok", "delete_err">> }

FaultFree ==
    /\ failures = {}
    /\ ~triggered
    /\ \A r \in Reports : report_data[r] = "valid"

(* The reconciliation of r has failed at one of its own steps.             *)
HasOwnFailure(r) ==
    \/ Has(log[r], "decode_err")
    \/ Has(log[r], "submit_err")
    \/ Has(log[r], "delete_err")

(* C1. Write before delete: in every reconciliation a delete of the row is *)
(* issued only after the sink has accepted the report's stale envelope in  *)
(* that same reconciliation; after a decode or submission failure no       *)
(* delete is issued; no row is removed by the Purger without an accepted   *)
(* envelope.                                                               *)
C1_WriteBeforeDelete ==
    \A r \in Reports :
        /\ Len(log[r]) > 0 =>
             /\ \A i \in 1..Len(log[r]) :
                  IsDelete(log[r][i]) =>
                      \E j \in 1..(i - 1) : log[r][j] = "submit_ok"
             /\ (Has(log[r], "decode_err") \/ Has(log[r], "submit_err"))
                   => ~HasDelete(log[r])
        /\ task[r] = "delete" => log[r] = <<"submit_ok">>
        /\ r \in purged => Accepted(r) >= 1

(* C1 witness: in one pool, one report was archived and then deleted, and  *)
(* another one's submission failed and its row is still there.             *)
C1_Witness ==
    \E r, q \in Reports :
        /\ r # q
        /\ log[r] = <<"submit_ok", "delete_ok">> /\ ~db[r] /\ r \in purged
        /\ log[q] = <<"submit_err">> /\ task[q] = "err" /\ db[q]

(* C2. Exactly-once disposition: under submission failures, delete         *)
(* failures and restarts of the process, the sink accepts at most one      *)
(* stale envelope per report, and every report removed by the Purger has   *)
(* exactly one.                                                            *)
C2_ExactlyOnce ==
    \A r \in Reports :
        /\ Accepted(r) <= 1
        /\ r \in purged => Accepted(r) = 1

(* C3. Never archived and left pending: once the reconciliation of a       *)
(* report has ended, with Ok or Err, it is not the case that the sink has  *)
(* accepted its stale envelope while its row is still in the store.        *)
C3_NotArchivedAndPending ==
    \A r \in Reports :
        (task[r] \in {"ok", "err"} /\ Accepted(r) >= 1) => ~db[r]

(* C4. Disposal exclusivity against the verifier: no report is both        *)
(* verified by the verifier and archived as stale by the Purger.           *)
C4_DisposalExclusive ==
    \A r \in Reports : ~(r \in verified /\ Accepted(r) >= 1)

(* C5. Shutdown never preempts a reconciliation: no reconciliation that    *)
(* was in flight when the shutdown trigger fired is cancelled between the  *)
(* sink's acceptance of its envelope and the delete of its row.            *)
C5_NoPreemption ==
    \A r \in shutdownCaught :
        ~(task[r] = "dropped" /\ log[r] = <<"submit_ok", "dropped">>)

(* C6. Once the shutdown trigger has fired during a pass, no              *)
(* reconciliation is launched in that pass: a report waiting in a pool's   *)
(* stream stays there or is discarded.                                     *)
C6_NoLaunchAfterShutdown ==
    [][(triggered /\ firedPass = passCount) =>
         \A r \in Reports :
             task[r] = "queued" => task'[r] \in {"queued", "unstarted", "none"}]_vars

(* C7. Once the shutdown trigger has fired, handle_db_tick is not invoked  *)
(* again.                                                                  *)
C7_NoPassAfterShutdown ==
    [][triggered => passCount' = passCount]_vars

(* C8. Passes never overlap: at most one invocation of handle_db_tick is   *)
(* in progress, and run is suspended in it for as long as it is.           *)
C8_NoOverlap ==
    /\ active <= 1
    /\ active = 1 <=> runPc = "pass"
    /\ passPc # "idle" => runPc = "pass"

(* C8 witness: a tick instant is reached while a pass is in the middle of  *)
(* a pool.                                                                 *)
C8_Witness ==
    /\ runPc = "pass"
    /\ InPool
    /\ TimerReady
    /\ active = 1

(* C9, as stated: after a pass that lasted across a tick instant, the next *)
(* pass starts only at a regular tick instant.                             *)
C9_NextRegularTick ==
    [][(passCount' = passCount + 1 /\ overran) => OnGrid(now)]_vars

(* C9, amended: every tick that starts a pass leaves the timer armed for   *)
(* the next regular tick instant strictly after the current time, at most  *)
(* one poll interval away; so a pass that lasted across n >= 1 tick        *)
(* instants is followed by one pass, started as soon as the timer is       *)
(* polled, and by no second one before the next regular tick instant.      *)
C9_Coalesced ==
    [][passCount' = passCount + 1 =>
         /\ deadline' > now
         /\ deadline' <= now + DB_POLL_TIME
         /\ OnGrid(deadline')
         /\ ~(now >= deadline')]_vars

(* C9 witness: the second pass was started off the regular tick instants,  *)
(* right after a pass that overran, and the timer is armed for the next    *)
(* regular instant, less than a poll interval away.                        *)
C9_Witness ==
    /\ passCount = 2
    /\ runPc = "pass"
    /\ passPc = "beacon_query"
    /\ overran
    /\ ~OnGrid(now)
    /\ deadline > now
    /\ deadline < now + DB_POLL_TIME

(* C10. A shutdown requested while run waits in the select with the timer  *)
(* not ready: the shutdown arm can be taken at once, and the step run      *)
(* takes from there leaves the loop with Ok, starts no pass and touches    *)
(* neither the store nor the sink.                                         *)
C10_IdleShutdown ==
    /\ []((runPc = "select" /\ triggered) => ENABLED RunShutdown)
    /\ [][(runPc = "select" /\ triggered /\ ~TimerReady /\ runPc' # runPc) =>
            /\ runPc' = "done_ok"
            /\ passCount' = passCount
            /\ passPc' = "idle"
            /\ UNCHANGED <<storeVars, sink>>]_vars

(* C10 witness: run has returned Ok through the shutdown arm of the select *)
(* after a pass, before the next tick was due.                             *)
C10_Witness ==
    /\ runPc = "done_ok"
    /\ exitArm = "select"
    /\ passCount = 1
    /\ ~TimerReady

(* C11. Per-record failure isolation: when a pool has completed in a pass  *)
(* without shutdown, every report of its stale set has been handled; a     *)
(* report whose own reconciliation did not fail is archived and deleted,   *)
(* whatever happened to its siblings; and run ends with Err only after a   *)
(* failed stale-set query, never after a failed reconciliation.            *)
C11_Isolation ==
    /\ (passPc \in {"witness_query", "entropy"} /\ ~triggered) =>
         \A r \in Reports :
             /\ task[r] \in {"none", "ok", "err"}
             /\ task[r] = "err" => HasOwnFailure(r)
             /\ task[r] = "ok" =>
                  /\ log[r] = <<"submit_ok", "delete_ok">>
                  /\ ~db[r] /\ r \in purged /\ Accepted(r) >= 1
    /\ runPc = "done_err" =>
         \E f \in failures : f.call \in {"beacon_query", "witness_query"}

(* C11 witness: the beacon pool has completed without shutdown; one beacon *)
(* failed and its sibling is archived and deleted; the pass goes on.       *)
C11_Witness ==
    /\ passPc = "witness_query"
    /\ runPc = "pass"
    /\ ~triggered
    /\ \E r, q \in Beacons :
         /\ task[r] = "err" /\ HasOwnFailure(r) /\ db[r]
         /\ task[q] = "ok" /\ ~db[q] /\ Accepted(q) = 1

(* C12. A stale report whose report_data does not decode is left           *)
(* untouched: the sink never accepts an envelope for it, no delete is      *)
(* issued for it, its row stays in the store, and every pool of its kind,  *)
(* in every pass, has it in its stream again (the undecodable report of    *)
(* the model is stale from the start).                                     *)
C12_UndecodableLeftInPlace ==
    \A r \in Reports :
        report_data[r] = "corrupt" =>
            /\ db[r]
            /\ Accepted(r) = 0
            /\ r \notin purged
            /\ task[r] \in {"none", "queued", "err", "unstarted"}
            /\ log[r] \in {<<>>, <<"decode_err">>}
            /\ passPc = PoolOf(r) => task[r] # "none"

(* C12 witness: the second pass has selected the undecodable report again  *)
(* and its reconciliation has failed again at the decode; the row is       *)
(* still there.                                                            *)
C12_Witness ==
    \E r \in Reports :
        /\ report_data[r] = "corrupt"
        /\ passCount = 2
        /\ passPc = PoolOf(r)
        /\ task[r] = "err"
        /\ log[r] = <<"decode_err">>
        /\ db[r]
        /\ Accepted(r) = 0

(* C13. Retry after a sink failure: when the only failure so far is the    *)
(* submission of report r in pass n and no shutdown has been requested,    *)
(* then for the rest of pass n the row of r is pending, no delete was      *)
(* issued and the sink holds no envelope of r; the pool of r's kind in     *)
(* pass n+1 has r in its stream again; and once that pool is over the row  *)
(* of r is gone and the sink holds exactly one envelope of r.              *)
C13_RetryAfterSinkFailure ==
    \A f \in failures :
        (failures = {f} /\ f.call = "submit" /\ ~triggered) =>
            LET r == f.report
                n == f.pass
            IN  /\ passCount = n =>
                     /\ db[r] /\ r \notin purged /\ Accepted(r) = 0
                     /\ ~HasDelete(log[r])
                     /\ task[r] \in {"err", "none"}
                /\ (passCount = n + 1 /\ passPc = PoolOf(r)) => task[r] # "none"
                /\ (passCount = n + 1 /\ passPc \in AfterPoolOf(r)) =>
                     /\ ~db[r] /\ r \in purged /\ Accepted(r) = 1

(* C13 witness: the submission of a witness report failed in pass 1; pass  *)
(* 2 has returned, the row is gone and the sink holds one envelope.        *)
C13_Witness ==
    \E r \in Witnesses :
        /\ failures = {[pass |-> 1, call |-> "submit", report |-> r]}
        /\ passCount = 2
        /\ passPc = "idle"
        /\ ~triggered
        /\ ~db[r]
        /\ Accepted(r) = 1

(* C14. A stale-set query error is fatal: the step in which a query fails  *)
(* ends handle_db_tick and run with that error, with no pool started and   *)
(* nothing written or deleted; once run has returned the error, no pass is *)
(* started and neither the store nor the sink changes again.               *)
C14_QueryErrorFatal ==
    /\ [][(passPc \in {"beacon_query", "witness_query"} /\ faults' # faults) =>
            /\ runPc' = "done_err"
            /\ passPc' = "idle"
            /\ active' = 0
            /\ task' = NoTasks
            /\ Failure(passPc, NoReport) \in failures'
            /\ UNCHANGED <<storeVars, sink, purged>>]_vars
    /\ [][runPc = "done_err" =>
            UNCHANGED <<runPc, passPc, passCount, active, task, storeVars, sink>>]_vars

(* C14 witness: the witness query of the first pass failed after the       *)
(* beacon pool had purged a beacon; run has returned the error and time    *)
(* has passed the next tick instant without a second pass.                 *)
C14_Witness ==
    /\ runPc = "done_err"
    /\ failures = {[pass |-> 1, call |-> "witness_query", report |-> NoReport]}
    /\ purged # {}
    /\ passCount = 1
    /\ passPc = "idle"
    /\ TimerReady

(* C15. A failure of the entropy purge is not fatal: the step in which     *)
(* Entropy::purge fails returns Ok from handle_db_tick to the loop of run  *)
(* and leaves the reports, the entropy rows and the sink as they were; and *)
(* run never ends with Err when no stale-set query has failed.             *)
C15_EntropyFailureNotFatal ==
    /\ [][(passPc = "entropy" /\ faults' # faults) =>
            /\ Failure("entropy", NoReport) \in failures'
            /\ runPc' = "check"
            /\ passPc' = "idle"
            /\ active' = 0
            /\ UNCHANGED <<storeVars, sink, purged>>]_vars
    /\ []((\A f \in failures : f.call \notin {"beacon_query", "witness_query"})
            => runPc # "done_err")

(* C15 witness: the entropy purge of the first pass failed, the stale      *)
(* entropy row is still there, and the second pass has started at the next *)
(* tick.                                                                   *)
C15_Witness ==
    /\ failures = {[pass |-> 1, call |-> "entropy", report |-> NoReport]}
    /\ passCount = 2
    /\ runPc = "pass"
    /\ StaleEntropy(base_stale_period + ENTROPY_STALE_PERIOD) # {}
    /\ purged # {}

(* C16. Postcondition of a fault-free pass. While no call has failed, no   *)
(* shutdown has been requested and every payload decodes: once a pool is   *)
(* over, every report of its stale set is absent from the store and the    *)
(* sink holds exactly one envelope for it, a beacon envelope for a beacon  *)
(* and a witness envelope for a witness, both with reason Stale; the sink  *)
(* holds nothing but the envelopes of purged reports, so none for an       *)
(* entropy row; and the step that ends the pass leaves no entropy row      *)
(* whose age has reached the entropy threshold, and submits nothing.       *)
C16_FaultFreePass ==
    /\ [](FaultFree =>
            /\ \A r \in Reports :
                 (passPc \in AfterPoolOf(r) /\ (task[r] # "none" \/ r \in purged)) =>
                     /\ ~db[r]
                     /\ r \in purged
                     /\ IF r \in Beacons
                        THEN /\ CopiesIn(InvalidBeaconReport(r), sink) = 1
                             /\ CopiesIn(InvalidWitnessReport(r), sink) = 0
                        ELSE /\ CopiesIn(InvalidWitnessReport(r), sink) = 1
                             /\ CopiesIn(InvalidBeaconReport(r), sink) = 0
            /\ \A env \in BagToSet(sink) :
                 /\ env.reason = "Stale"
                 /\ env.report \in Reports
                 /\ env.report \in purged \/ task[env.report] = "delete"
            /\ (passPc = "witness_query" /\ passCount = 1) =>
                 \A r \in Beacons : task[r] = "none" <=> r \notin purged)
    /\ [][(FaultFree' /\ passPc = "entropy" /\ passPc' = "idle") =>
            /\ \A e \in DOMAIN entropy' :
                 now - entropy'[e] < base_stale_period + ENTROPY_STALE_PERIOD
            /\ sink' = sink
            /\ db' = db]_vars

(* C16 witness: the first pass has returned without a fault; it has        *)
(* archived and deleted every report, one envelope each, and removed the   *)
(* stale entropy row.                                                      *)
C16_Witness ==
    /\ FaultFree
    /\ passCount = 1
    /\ runPc = "check"
    /\ purged = Reports
    /\ \A r \in Reports : ~db[r] /\ Accepted(r) = 1
    /\ BagCardinality(sink) = NumBeacons + NumWitnesses
    /\ DOMAIN entropy = {}

(* C17. Concurrency cap: at every moment of a pass the number of           *)
(* reconciliations in flight, started and not yet finished, is at most     *)
(* PURGER_WORKERS, for stale sets of up to MaxStale > PURGER_WORKERS       *)
(* reports, in the beacon pool and in the witness pool.                    *)
C17_ConcurrencyCap ==
    /\ BulkInFlight <= PURGER_WORKERS
    /\ Cardinality(InFlight) <= PURGER_WORKERS
    /\ bulk.queued >= 0 /\ bulk.submit >= 0 /\ bulk.delete >= 0

(* C17 witness: PURGER_WORKERS reconciliations of the witness pool are in  *)
(* flight, some of them past their submission, and reports are still       *)
(* waiting in the stream.                                                  *)
C17_Witness ==
    /\ bulk.phase = "witness_pool"
    /\ BulkInFlight = PURGER_WORKERS
    /\ bulk.delete > 0
    /\ bulk.queued > 0

(* C18. The threshold boundary is inclusive: in the beacon pool of the     *)
(* first pass, whose query ran at this same instant, a beacon whose age is *)
(* base_stale_period + 5400 - 1 seconds is not in the stream, and a beacon *)
(* whose age is base_stale_period + 5400 seconds is.                       *)
C18_BoundaryInclusive ==
    (passPc = "beacon_pool" /\ passCount = 1) =>
        \A b \in Beacons :
            /\ Age(b) = base_stale_period + 5400 - 1 => task[b] = "none" /\ db[b]
            /\ Age(b) = base_stale_period + 5400 => task[b] # "none"

(* C18 witness: with a positive base_stale_period, the beacon pool holds   *)
(* the beacon that is exactly at the threshold and not the one that is one *)
(* second short of it.                                                     *)
C18_Witness ==
    /\ passPc = "beacon_pool"
    /\ passCount = 1
    /\ base_stale_period > 0
    /\ \E b, c \in Beacons :
         /\ Age(b) = base_stale_period + 5400 - 1 /\ task[b] = "none" /\ db[b]
         /\ Age(c) = base_stale_period + 5400 /\ task[c] = "queued"

(* C19. Threshold relation. For every base_stale_period, in the first      *)
(* pass (all at one instant): the beacon pool holds exactly the pending    *)
(* beacons of age >= base + 5400, the witness pool exactly the pending     *)
(* witnesses of age >= base + 6300; the entropy threshold is base + 6300,  *)
(* the witness threshold, and above the beacon threshold; and the purge    *)
(* removes an entropy row only at an age at which a beacon is stale, and   *)
(* does remove every row of age >= base + 6300 when it succeeds.           *)
C19_ThresholdRelation ==
    /\ []((passPc = "beacon_pool" /\ passCount = 1) =>
            \A b \in Beacons :
                task[b] # "none" <=> Age(b) >= base_stale_period + 5400)
    /\ []((passPc = "witness_pool" /\ passCount = 1) =>
            \A w \in Witnesses :
                task[w] # "none" <=> Age(w) >= base_stale_period + 6300)
    /\ [](/\ StalePeriod("witness", base_stale_period)
               = EntropyStalePeriod(base_stale_period)
           /\ EntropyStalePeriod(base_stale_period)
               > StalePeriod("beacon", base_stale_period))
    /\ [][\A e \in DOMAIN entropy :
            /\ e \notin DOMAIN entropy' =>
                 /\ now - entropy[e] >= base_stale_period + 6300
                 /\ now - entropy[e] >= StalePeriod("beacon", base_stale_period)
            /\ (passPc = "entropy" /\ faults' = faults
                   /\ now - entropy[e] >= base_stale_period + 6300)
                 => e \notin DOMAIN entropy']_vars

(* C19 witness: with a positive base_stale_period, the pass has purged an  *)
(* entropy row that was exactly at the entropy threshold, after a beacon   *)
(* pool and a witness pool that purged reports at their thresholds.        *)
C19_Witness ==
    /\ base_stale_period > 0
    /\ passCount = 1
    /\ passPc = "idle"
    /\ DOMAIN entropy = {}
    /\ \E b \in Beacons : b \in purged /\ Age(b) = base_stale_period + 5400
    /\ \E w \in Witnesses : w \in purged /\ Age(w) = base_stale_period + 6300

(* C20, as stated: the second of two passes finds an empty stale set, also *)
(* after a first pass in which nothing went wrong.                         *)
C20_SecondPassEmpty ==
    (passCount = 2 /\ FaultFree /\ InPool) => \A r \in Reports : task[r] = "none"

(* C20, amended: a report that a pass has archived and deleted is never    *)
(* selected again: its row is gone, it is in the stream of no later pool,  *)
(* and nothing is submitted or deleted for it again. After a first pass in *)
(* which nothing went wrong, the second pass selects only reports that     *)
(* were not yet stale at Start, and none when there is no such report.     *)
C20_PurgedOnce ==
    /\ \A r \in purged :
         /\ ~db[r]
         /\ Accepted(r) >= 1
         /\ \/ task[r] = "none" /\ log[r] = <<>>
            \/ task[r] = "ok" /\ log[r] = <<"submit_ok", "delete_ok">>
    /\ (passCount = 2 /\ FaultFree /\ InPool) =>
         \A r \in Reports :
             task[r] # "none" =>
                 /\ Start - received_timestamp[r] < StalePeriod(Kind(r), base_stale_period)
                 /\ Accepted(r) <= 1

(* C20 witness: in the beacon pool of the second pass, after a first pass  *)
(* in which nothing went wrong, the beacon purged by the first pass is not *)
(* in the stream, and the beacon that has turned stale since is.           *)
C20_Witness ==
    /\ passCount = 2
    /\ FaultFree
    /\ passPc = "beacon_pool"
    /\ \E r, q \in Beacons :
         /\ r \in purged /\ task[r] = "none" /\ Accepted(r) = 1
         /\ task[q] = "queued" /\ db[q] /\ Accepted(q) = 0

(* C21. Every envelope the sink has accepted from the Purger carries the   *)
(* reason Stale, the report it was built from and the received_timestamp   *)
(* of that report; the envelope of a beacon went to the invalid-beacon     *)
(* sink, the envelope of a witness to the invalid-witness sink with the    *)
(* participant side Witness. A step that changes the sink adds one such    *)
(* envelope, for a report whose reconciliation is at its submission.       *)
C21_EnvelopeContents ==
    /\ [](\A env \in BagToSet(sink) :
            /\ env.reason = "Stale"
            /\ env.report \in Reports
            /\ env.received_timestamp = received_timestamp[env.report]
            /\ IF env.report \in Beacons
               THEN /\ env.file = "invalid_beacon"
                    /\ DOMAIN env = {"file", "received_timestamp", "reason",
                                     "report"}
               ELSE /\ env.file = "invalid_witness_report"
                    /\ DOMAIN env = {"file", "received_timestamp", "reason",
                                     "report", "participant_side"}
                    /\ env.participant_side = "Witness")
    /\ [][(sink' # sink) =>
            \E env \in BagToSet(sink') :
                /\ env.reason = "Stale"
                /\ task[env.report] = "submit"
                /\ env.received_timestamp = received_timestamp[env.report]
                /\ CopiesIn(env, sink') = CopiesIn(env, sink) + 1
                /\ \A other \in BagToSet(sink') \cup BagToSet(sink) :
                     other # env =>
                         CopiesIn(other, sink') = CopiesIn(other, sink)]_vars

(* C21 witness: the sink holds the envelope of a beacon and the envelope   *)
(* of a witness, submitted after the clock had moved on from Start.        *)
C21_Witness ==
    /\ now > Start
    /\ \E b \in Beacons : CopiesIn(InvalidBeaconReport(b), sink) = 1
    /\ \E w \in Witnesses : CopiesIn(InvalidWitnessReport(w), sink) = 1

(* C22. Phase order inside a pass: while the witness query, the witness    *)
(* pool or the entropy purge of a pass is under way, no beacon              *)
(* reconciliation of that pass is waiting or in flight; while the entropy   *)
(* purge is under way, no witness reconciliation is; the beacon pool holds  *)
(* beacons only and the witness pool witnesses only; outside a pool         *)
(* nothing is in flight. The pass goes on to the witness query only from    *)
(* the beacon pool, and to the entropy purge only from the witness pool,    *)
(* when the pool has finished or shutdown was requested.                    *)
C22_PhaseOrder ==
    /\ [](/\ passPc \in {"witness_query", "witness_pool", "entropy"} =>
               \A b \in Beacons : task[b] \notin {"queued", "submit", "delete"}
          /\ passPc = "entropy" =>
               \A w \in Witnesses : task[w] \notin {"queued", "submit", "delete"}
          /\ passPc = "beacon_pool" => \A w \in Witnesses : task[w] = "none"
          /\ passPc = "witness_pool" => \A b \in Beacons : task[b] = "none"
          /\ passPc \in {"idle", "beacon_query"} => task = NoTasks
          /\ \A r, q \in InFlight : Kind(r) = Kind(q))
    /\ [][(passPc' # passPc) =>
            /\ passPc' = "beacon_pool" => passPc = "beacon_query"
            /\ passPc' = "witness_query" =>
                 /\ passPc = "beacon_pool"
                 /\ \/ triggered
                    \/ \A r \in Reports :
                          task[r] \notin {"queued", "submit", "delete"}
            /\ passPc' = "witness_pool" => passPc = "witness_query"
            /\ passPc' = "entropy" =>
                 /\ passPc = "witness_pool"
                 /\ \/ triggered
                    \/ \A r \in Reports :
                          task[r] \notin {"queued", "submit", "delete"}]_vars

(* C22 witness: a witness reconciliation is in flight in a pass whose      *)
(* beacon pool was released by shutdown before it had purged every stale   *)
(* beacon.                                                                 *)
C22_Witness ==
    /\ passPc = "witness_pool"
    /\ triggered
    /\ failures = {}
    /\ \E w \in Witnesses : task[w] = "submit"
    /\ \E b \in Beacons :
         /\ db[b] /\ report_data[b] = "valid"
         /\ Start - received_timestamp[b] >= StalePeriod("beacon", base_stale_period)

(* C23. The Purger acts only on stale rows. A report in the stream of a    *)
(* pool was pending and at least as old as the threshold of its kind when  *)
(* the query returned it; an envelope is submitted and a row deleted only  *)
(* for a report of the current pool; a report younger than its threshold   *)
(* is neither selected, archived nor deleted; an entropy row younger than  *)
(* the entropy threshold stays; and the step of a query changes neither    *)
(* the store nor the sink.                                                 *)
C23_OnlyStaleRows ==
    /\ [](\A r \in Reports :
            /\ task[r] = "queued" => Age(r) >= Threshold(r) /\ db[r]
            /\ Age(r) < Threshold(r) =>
                 /\ task[r] = "none"
                 /\ db[r]
                 /\ r \notin purged
                 /\ Accepted(r) = 0)
    /\ [][/\ (sink' # sink \/ db' # db) =>
               \A r \in Reports :
                   (Accepted(r)' # Accepted(r) \/ db'[r] # db[r]) =>
                       /\ task[r] \in {"submit", "delete"}
                       /\ passPc = PoolOf(r)
                       /\ Age(r)' >= Threshold(r)
          /\ (task' # task) =>
               \A r \in Reports :
                   Age(r)' < Threshold(r) => task'[r] = "none"
          /\ (entropy' # entropy) =>
               \A e \in DOMAIN entropy :
                   now - entropy[e] < base_stale_period + ENTROPY_STALE_PERIOD =>
                       e \in DOMAIN entropy' /\ entropy'[e] = entropy[e]
          /\ (passPc = "beacon_query" \/ passPc = "witness_query") =>
               UNCHANGED <<storeVars, sink, purged>>]_vars

(* C23 witness: the first pass has returned; it has purged the beacon that *)
(* was at its threshold and left alone the pending beacon one second short *)
(* of it and the entropy row short of the entropy threshold.               *)
C23_Witness ==
    /\ passCount = 1
    /\ passPc = "idle"
    /\ now = Start
    /\ DOMAIN entropy = EntropyIds
    /\ \E b, c \in Beacons :
         /\ Age(b) = Threshold(b) /\ b \in purged /\ Accepted(b) = 1
         /\ Age(c) = Threshold(c) - 1 /\ db[c] /\ Accepted(c) = 0

(* C24. Shutdown terminates the scheduler: once the shutdown trigger has   *)
(* fired, run returns in the end, whether it was idle or inside a pass;    *)
(* and once run has returned there is no pass, no submission and no        *)
(* change of the store by the Purger.                                      *)
C24_ShutdownTerminates ==
    /\ triggered ~> (runPc \in {"done_ok", "done_err"})
    /\ [][(runPc = "done_ok" \/ runPc = "done_err") =>
            UNCHANGED <<runPc, passPc, passCount, active, task, storeVars, sink,
                        purged>>]_vars

(* C24 witness: shutdown fired inside a pass, while a reconciliation was   *)
(* in flight, and run has returned Ok.                                     *)
C24_Witness ==
    /\ runPc = "done_ok"
    /\ triggered
    /\ firedPass = passCount
    /\ passCount >= 1
    /\ exitArm = "check"
    /\ \E r \in Reports : Accepted(r) = 1 /\ db[r] /\ failures = {}

(* C25. A pass interrupted by shutdown still finishes its remaining store  *)
(* steps: when the trigger has fired during the beacon phase the pass goes *)
(* on to the stale-witness query, from there to the witness pool and the   *)
(* entropy purge, and it returns only from the entropy purge or on the     *)
(* error of a query; the purge deletes the stale entropy rows although     *)
(* shutdown was requested.                                                 *)
C25_InterruptedPassGoesOn ==
    /\ [][(triggered /\ passPc = "beacon_pool" /\ passPc' # passPc) =>
            /\ passPc' = "witness_query"
            /\ runPc' = "pass"
            /\ UNCHANGED entropy]_vars
    /\ [][(triggered /\ passPc = "witness_query" /\ passPc' # passPc) =>
            \/ /\ passPc' = "witness_pool"
               /\ runPc' = "pass"
               /\ \A r \in Reports :
                    task'[r] = "queued" <=>
                       /\ r \in Witnesses
                       /\ db[r]
                       /\ Age(r) >= Threshold(r)
            \/ /\ passPc' = "idle"
               /\ runPc' = "done_err"
               /\ Failure("witness_query", NoReport) \in failures']_vars
    /\ [][(triggered /\ passPc = "witness_pool" /\ passPc' # passPc) =>
            /\ passPc' = "entropy"
            /\ runPc' = "pass"]_vars
    /\ [][(triggered /\ passPc = "entropy" /\ passPc' # passPc) =>
            /\ passPc' = "idle"
            /\ \/ DOMAIN entropy' =
                    {e \in DOMAIN entropy :
                       now - entropy[e] < base_stale_period + ENTROPY_STALE_PERIOD}
               \/ /\ Failure("entropy", NoReport) \in failures'
                  /\ entropy' = entropy]_vars
    /\ [][(runPc = "pass" /\ runPc' # "pass") =>
            \/ passPc = "entropy"
            \/ /\ passPc = "beacon_query" \/ passPc = "witness_query"
               /\ runPc' = "done_err"]_vars

(* C25 witness: the trigger fired in the first pass and cut the beacon     *)
(* pool short (a stale, decodable beacon is still pending though no call   *)
(* failed); the pass has returned and the entropy row is gone.             *)
C25_Witness ==
    /\ triggered
    /\ firedPass = 1
    /\ passCount = 1
    /\ passPc = "idle"
    /\ runPc \in {"check", "done_ok"}
    /\ failures = {}
    /\ DOMAIN entropy = {}
    /\ \E r \in Beacons :
         /\ db[r]
         /\ Accepted(r) = 0
         /\ report_data[r] = "valid"
         /\ Start - received_timestamp[r] >= Threshold(r)

(* C26. When the stale-witness query of a pass fails, run returns the      *)
(* error, whether or not shutdown had been requested; the failing step     *)
(* and every later step leave the store and the sink alone, so the beacons *)
(* the pass has purged stay deleted with their envelopes submitted, no     *)
(* witness of the pass is reconciled and its entropy purge is not issued.  *)
C26_WitnessQueryFails ==
    /\ [][(passPc = "witness_query" /\ faults' # faults) =>
            /\ runPc' = "done_err"
            /\ passPc' = "idle"
            /\ \A r \in Reports : task'[r] = "none"
            /\ UNCHANGED <<storeVars, sink, purged, triggered>>]_vars
    /\ [](\A f \in failures :
            f.call = "witness_query" =>
              /\ runPc = "done_err"
              /\ passPc = "idle"
              /\ passCount = f.pass
              /\ \A r \in Reports : task[r] = "none"
              /\ \A r \in purged : ~db[r] /\ Accepted(r) >= 1
              /\ f.pass = 1 =>
                    /\ purged \subseteq Beacons
                    /\ DOMAIN entropy = EntropyIds
                    /\ \A w \in Witnesses : db[w] /\ Accepted(w) = 0)
    /\ [][(\E f \in failures : f.call = "witness_query") =>
            UNCHANGED <<storeVars, sink, purged>>]_vars

(* C26 witness: shutdown was requested during the beacon pool of the first *)
(* pass, after a beacon had been purged; the witness query of that pass    *)
(* then failed, run has returned the error, and the entropy row, stale by  *)
(* now, and the stale witness are still in the store.                      *)
C26_Witness ==
    /\ runPc = "done_err"
    /\ triggered
    /\ firedPass = 1
    /\ failures = {[pass |-> 1, call |-> "witness_query", report |-> NoReport]}
    /\ \E b \in Beacons : b \in purged /\ ~db[b] /\ Accepted(b) = 1
    /\ \A e \in EntropyIds :
         /\ e \in DOMAIN entropy
         /\ now - entropy[e] >= base_stale_period + ENTROPY_STALE_PERIOD
    /\ \E w \in Witnesses : db[w] /\ Age(w) >= Threshold(w)

(* C27. Within a pass every record of the stale set is reconciled at most  *)
(* once: the calls made for a report in a pool are at most one submission  *)
(* followed by at most one delete, both made in the pool of its kind, and  *)
(* a reconciliation that has ended, with an error or not, is not taken up  *)
(* again in that pool.                                                     *)
C27_AtMostOncePerPass ==
    /\ [](\A r \in Reports : log[r] \in OneReconciliation)
    /\ [][/\ (sink' # sink) =>
               \A r \in Reports :
                   (Accepted(r)' # Accepted(r)) =>
                       /\ Accepted(r)' = Accepted(r) + 1
                       /\ passPc = PoolOf(r)
                       /\ log[r] = <<>>
          /\ (db' # db) =>
               \A r \in Reports :
                   (db'[r] # db[r]) =>
                       /\ passPc = PoolOf(r)
                       /\ log[r] = <<"submit_ok">>
          /\ (passPc' = passPc /\ (task' # task \/ log' # log)) =>
               \A r \in Reports :
                   (task[r] \in {"ok", "err", "dropped", "unstarted"}) =>
                       /\ task'[r] = task[r]
                       /\ log'[r] = log[r]]_vars

(* C27 witness: the beacon pool of a pass has ended and the witness query  *)
(* is next; the submission of one beacon failed and was not repeated,      *)
(* while another beacon was archived and deleted in the same pool.         *)
C27_Witness ==
    /\ passPc = "witness_query"
    /\ ~triggered
    /\ \E r, q \in Beacons :
         /\ log[r] = <<"submit_err">>
         /\ task[r] = "err"
         /\ Accepted(r) = 0
         /\ db[r]
         /\ log[q] = <<"submit_ok", "delete_ok">>
         /\ Accepted(q) = 1

(* C28. The balance cache signals only changes of state: a call of         *)
(* debit_if_sufficient returns Sufficient{enable: true} only for a payer   *)
(* whose cached flag was false before the call, and Insufficient{disable:  *)
(* true} only for a payer whose flag was true (a payer not yet cached gets *)
(* its entry with the flag set); the latest signal of the payer was not    *)
(* the same one; and the flag of a payer is the sufficiency of its latest  *)
(* call that returned one.                                                 *)
C28_SignalsOnlyChanges ==
    /\ [][(result'.kind = "Sufficient" /\ result'.flag) =>
            /\ result'.payer \in DOMAIN balances
            /\ ~balances[result'.payer].enabled
            /\ history[result'.payer].signal # "enable"
            /\ history'[result'.payer].signal = "enable"]_vars
    /\ [][(result'.kind = "Insufficient" /\ result'.flag) =>
            /\ result'.payer \in DOMAIN balances => balances[result'.payer].enabled
            /\ history[result'.payer].signal # "disable"
            /\ history'[result'.payer].signal = "disable"]_vars
    /\ [](\A p \in Payers :
            history[p].sufficiency # "none" =>
              /\ p \in DOMAIN balances
              /\ balances[p].enabled = (history[p].sufficiency = "Sufficient"))

(* C28 witness: the latest call returned Sufficient{enable: true} for a    *)
(* payer that had been disabled, while the other payer is still disabled   *)
(* after its own Insufficient{disable: true}.                              *)
C28_Witness ==
    /\ result.kind = "Sufficient"
    /\ result.flag
    /\ history[result.payer].signal = "enable"
    /\ balances[result.payer].enabled
    /\ \E q \in Payers \ {result.payer} :
         /\ history[q] = [sufficiency |-> "Insufficient", signal |-> "disable"]
         /\ ~balances[q].enabled

(* C29. The balance cache never over-debits: a call that returns           *)
(* Sufficient has raised the burned total of its payer by exactly amount   *)
(* and leaves burned <= balance for it; a call that returns Insufficient   *)
(* leaves the burned total as it was; the entries of the other payers stay *)
(* as they were; and on an RPC error no burned total changes.              *)
C29_NeverOverDebits ==
    [][/\ result'.kind = "Sufficient" =>
            /\ balances'[result'.payer].burned =
                  CachedBurned(result'.payer) + result'.amount
            /\ balances'[result'.payer].burned <= balances'[result'.payer].balance
       /\ result'.kind = "Insufficient" =>
            balances'[result'.payer].burned = CachedBurned(result'.payer)
       /\ result'.kind = "RpcClientError" => balances' = balances
       /\ \A q \in Payers \ {result'.payer} :
            /\ q \in DOMAIN balances' <=> q \in DOMAIN balances
            /\ q \in DOMAIN balances => balances'[q] = balances[q]]_vars

====
